---- MODULE Spec2Model ----
(***************************************************************************)
(* Model of githistory.py: author history for a set of git repositories.   *)
(*                                                                         *)
(* Times are whole hours since 1970-01-01T00:00 (a naive datetime is the   *)
(* number of hours since that instant on the local clock).  A Python dict  *)
(* is a sequence of [k, v] entries in insertion order.  A commit message   *)
(* identifies the commit: the messages of one branch are pairwise          *)
(* distinct.                                                               *)
(***************************************************************************)
EXTENDS Integers, Sequences, FiniteSets, TLC

\* ---- bounds of the model ----
MaxRepos == 2
MaxCommits == 2
MaxTime == 1

\* ---- constants of the program ----
\* datetime(2030, 1, 1) and datetime(1970, 1, 1), in hours since 1970-01-01
FarFuture == 525960
FarPast == 0

None == "None"

\* ---- the inputs ----
RepoNames == {"A", "B"}
\* what Repo(path) finds on a path: not a repository, a repository without
\* branch heads, one with heads but without the designated branch, or one
\* whose designated branch has commits
Kinds == {"invalid", "noheads", "nomaster", "ok"}
Persons == { [name |-> "Alice", email |-> "alice@x"],
             [name |-> "Al",    email |-> "alice@x"],
             [name |-> "Bob",   email |-> "bob@x"] }
Emails == { p.email : p \in Persons }
\* committed_date values (UNIX time, in hours); the last one is past 2030
Times == (0 .. MaxTime) \cup {FarFuture + 1}
TzOffsets == {-1, 0, 1}
Messages == <<"m1", "m2", "m3", "m4">>

ArgvSet == UNION { [1 .. n -> [name : RepoNames, kind : Kinds]] : n \in 0 .. MaxRepos }

\* the reversed list of commits of the designated branch: at least one commit,
\* commit k carrying the message Messages[k]
CommitLists ==
  UNION { { [k \in 1 .. n |-> [name |-> f[k].p.name, email |-> f[k].p.email,
                               committed_date |-> f[k].t, message |-> Messages[k]]] :
            f \in [1 .. n -> [p : Persons, t : Times]] } : n \in 1 .. MaxCommits }

\* ---- helpers ----
Range(s) == { s[k] : k \in 1 .. Len(s) }

RECURSIVE SumSeq(_)
SumSeq(s) == IF s = <<>> THEN 0 ELSE s[1] + SumSeq(Tail(s))

MinOf(a, b) == IF b < a THEN b ELSE a
MaxOf(a, b) == IF b > a THEN b ELSE a

SetMin(S) == CHOOSE x \in S : \A y \in S : x <= y
SetMax(S) == CHOOSE x \in S : \A y \in S : x >= y

\* ---- dict ----
DictKeys(d) == [k \in 1 .. Len(d) |-> d[k].k]
DictHas(d, key) == \E k \in 1 .. Len(d) : d[k].k = key
DictGet(d, key) == d[CHOOSE k \in 1 .. Len(d) : d[k].k = key].v
DictSet(d, key, val) ==
  IF DictHas(d, key)
  THEN [k \in 1 .. Len(d) |-> IF d[k].k = key THEN [k |-> key, v |-> val] ELSE d[k]]
  ELSE Append(d, [k |-> key, v |-> val])

VARIABLES argv, tz, pc, i, commits, j, history, repos, r,
          all_author_histories, stdout, authors_csv, repos_csv

vars == <<argv, tz, pc, i, commits, j, history, repos, r,
          all_author_histories, stdout, authors_csv, repos_csv>>

\* datetime.fromtimestamp: UNIX time to the naive local datetime
fromtimestamp(t) == t + tz

\* RepositoryHistory(name=repo_name)
RepositoryHistory(name) ==
  [name |-> name, commit_count |-> 0, first_commit_at |-> None,
   last_commit_at |-> None, authors |-> <<>>]

\* AuthorHistoryOverMultipleRepos()
AuthorHistoryOverMultipleRepos ==
  [histories |-> <<>>, first_commit_at |-> FarFuture,
   last_commit_at |-> FarPast, commit_count |-> 0]

Init ==
  /\ argv \in ArgvSet
  /\ tz \in TzOffsets
  /\ pc = "mine"
  /\ i = 1
  /\ commits = <<>>
  /\ j = 1
  /\ history = RepositoryHistory("")
  /\ repos = <<>>
  /\ r = 1
  /\ all_author_histories = <<>>
  /\ stdout = <<>>
  /\ authors_csv = <<>>
  /\ repos_csv = <<>>

\* ---- extract_history ----

\* Repo(path) raises on a path that is no git repository
ExtractInvalid ==
  /\ pc = "mine" /\ i <= Len(argv)
  /\ argv[i].kind = "invalid"
  /\ pc' = "aborted"
  /\ UNCHANGED <<argv, tz, i, commits, j, history, repos, r,
                 all_author_histories, stdout, authors_csv, repos_csv>>

\* ExtractNoHeads returning an empty history that mine_data appends
ExtractNoHeads_Appends ==
  /\ pc = "mine" /\ i <= Len(argv)
  /\ argv[i].kind = "noheads"
  /\ history' = RepositoryHistory(argv[i].name)
  /\ commits' = <<>>
  /\ j' = 1
  /\ repos' = Append(repos, history')
  /\ i' = i + 1
  /\ UNCHANGED <<argv, tz, pc, r,
                 all_author_histories, stdout, authors_csv, repos_csv>>

\* len(heads) == 0: warning, return None; mine_data skips the path
ExtractNoHeads ==
  /\ pc = "mine" /\ i <= Len(argv)
  /\ argv[i].kind = "noheads"
  /\ i' = i + 1
  /\ UNCHANGED <<argv, tz, pc, commits, j, history, repos, r,
                 all_author_histories, stdout, authors_csv, repos_csv>>

\* ExtractNoMaster with the error caught and the path skipped
ExtractNoMaster_Skips ==
  /\ pc = "mine" /\ i <= Len(argv)
  /\ argv[i].kind = "nomaster"
  /\ i' = i + 1
  /\ UNCHANGED <<argv, tz, pc, commits, j, history, repos, r,
                 all_author_histories, stdout, authors_csv, repos_csv>>

\* repo.iter_commits("master") raises when the branch does not exist
ExtractNoMaster ==
  /\ pc = "mine" /\ i <= Len(argv)
  /\ argv[i].kind = "nomaster"
  /\ pc' = "aborted"
  /\ UNCHANGED <<argv, tz, i, commits, j, history, repos, r,
                 all_author_histories, stdout, authors_csv, repos_csv>>

\* the history is created, the commits are listed and reversed, and
\* first_commit_at is taken from the first of them
ExtractStart ==
  /\ pc = "mine" /\ i <= Len(argv)
  /\ argv[i].kind = "ok"
  /\ \E cs \in CommitLists :
       /\ commits' = cs
       /\ history' = [RepositoryHistory(argv[i].name) EXCEPT
                        !.first_commit_at = fromtimestamp(cs[1].committed_date)]
  /\ j' = 1
  /\ pc' = "walk"
  /\ UNCHANGED <<argv, tz, i, repos, r,
                 all_author_histories, stdout, authors_csv, repos_csv>>

\* the author record of a commit met for the first time
NewAuthor(repo_name, commit) ==
  [repo |-> repo_name, name |-> commit.name, email |-> commit.email,
   first_commit_at |-> fromtimestamp(commit.committed_date),
   first_commit_message |-> commit.message,
   last_commit_at |-> fromtimestamp(commit.committed_date),
   last_commit_message |-> None,
   commit_count |-> 1]

\* MoreCommits without the count of the commit
MoreCommits_NoCount(author, commit) ==
  [author EXCEPT !.last_commit_at = fromtimestamp(commit.committed_date),
                 !.last_commit_message = commit.message]

\* the author record after one more commit of a known author
MoreCommits(author, commit) ==
  [author EXCEPT !.last_commit_at = fromtimestamp(commit.committed_date),
                 !.last_commit_message = commit.message,
                 !.commit_count = @ + 1]

\* one iteration of "for commit in commits"
WalkStep(h, commit) ==
  LET author == IF DictHas(h.authors, commit.email)
                THEN MoreCommits(DictGet(h.authors, commit.email), commit)
                ELSE NewAuthor(h.name, commit)
  IN [h EXCEPT !.authors = DictSet(h.authors, commit.email, author),
               !.commit_count = @ + 1]

WalkCommit ==
  /\ pc = "walk" /\ j <= Len(commits)
  /\ history' = WalkStep(history, commits[j])
  /\ j' = j + 1
  /\ UNCHANGED <<argv, tz, pc, i, commits, repos, r,
                 all_author_histories, stdout, authors_csv, repos_csv>>

\* last_commit_at is taken from the last commit, the history is returned and
\* mine_data appends it
ExtractFinish ==
  /\ pc = "walk" /\ j > Len(commits)
  /\ history' = [history EXCEPT
                   !.last_commit_at = fromtimestamp(commits[Len(commits)].committed_date)]
  /\ repos' = Append(repos, history')
  /\ i' = i + 1
  /\ pc' = "mine"
  /\ UNCHANGED <<argv, tz, commits, j, r,
                 all_author_histories, stdout, authors_csv, repos_csv>>

\* ---- mine_authors_over_repos ----

\* AggregateAuthor taking the first commit time of the repository at hand
\* instead of the earlier of the two
AggregateAuthor_Overwrite(all, repo_name, email, hist) ==
  LET all_history == IF DictHas(all, email) THEN DictGet(all, email)
                     ELSE AuthorHistoryOverMultipleRepos
  IN DictSet(all, email,
       [histories |-> DictSet(all_history.histories, repo_name, hist),
        first_commit_at |-> hist.first_commit_at,
        last_commit_at |-> MaxOf(all_history.last_commit_at, hist.last_commit_at),
        commit_count |-> all_history.commit_count + hist.commit_count])

\* one iteration of "for email, hist in repo.authors.items()"
AggregateAuthor(all, repo_name, email, hist) ==
  LET all_history == IF DictHas(all, email) THEN DictGet(all, email)
                     ELSE AuthorHistoryOverMultipleRepos
  IN DictSet(all, email,
       [histories |-> DictSet(all_history.histories, repo_name, hist),
        first_commit_at |-> MinOf(all_history.first_commit_at, hist.first_commit_at),
        last_commit_at |-> MaxOf(all_history.last_commit_at, hist.last_commit_at),
        commit_count |-> all_history.commit_count + hist.commit_count])

\* the inner loop over the authors of one repository, from entry k on
RECURSIVE AggregateRepoFrom(_, _, _)
AggregateRepoFrom(all, repo, k) ==
  IF k > Len(repo.authors) THEN all
  ELSE AggregateRepoFrom(
         AggregateAuthor(all, repo.name, repo.authors[k].k, repo.authors[k].v),
         repo, k + 1)

\* the whole function, from repository k on
RECURSIVE MineAuthorsFrom(_, _, _)
MineAuthorsFrom(all, hs, k) ==
  IF k > Len(hs) THEN all
  ELSE MineAuthorsFrom(AggregateRepoFrom(all, hs[k], 1), hs, k + 1)

mine_authors_over_repos(hs) == MineAuthorsFrom(<<>>, hs, 1)

\* all paths are done: mine_data calls mine_authors_over_repos
MineAuthorsStart ==
  /\ pc = "mine" /\ i > Len(argv)
  /\ all_author_histories' = <<>>
  /\ r' = 1
  /\ pc' = "aggregate"
  /\ UNCHANGED <<argv, tz, i, commits, j, history, repos,
                 stdout, authors_csv, repos_csv>>

\* one iteration of "for repo in history.repos"
AggregateRepo ==
  /\ pc = "aggregate" /\ r <= Len(repos)
  /\ all_author_histories' = AggregateRepoFrom(all_author_histories, repos[r], 1)
  /\ r' = r + 1
  /\ UNCHANGED <<argv, tz, pc, i, commits, j, history, repos,
                 stdout, authors_csv, repos_csv>>

\* mine_authors_over_repos and mine_data return
MineDataReturn ==
  /\ pc = "aggregate" /\ r > Len(repos)
  /\ pc' = "output_authors"
  /\ UNCHANGED <<argv, tz, i, commits, j, history, repos, r,
                 all_author_histories, stdout, authors_csv, repos_csv>>

\* ---- the reports ----

\* ", ".join(names)
RECURSIVE Join(_)
Join(names) ==
  IF names = <<>> THEN ""
  ELSE IF Len(names) = 1 THEN names[1]
  ELSE names[1] \o ", " \o Join(Tail(names))

\* the row is put behind the last row whose key is not greater
RECURSIVE InsertRow(_, _, _)
InsertRow(rows, row, col) ==
  IF rows = <<>> THEN <<row>>
  ELSE IF row[col] < rows[Len(rows)][col]
       THEN Append(InsertRow(SubSeq(rows, 1, Len(rows) - 1), row, col), rows[Len(rows)])
       ELSE Append(rows, row)

\* sorted with its result dropped: the table as it was built
sorted_Unsorted(table, col) == table

\* sorted(table, key=lambda row: row[col - 1]): ascending and stable
RECURSIVE sorted(_, _)
sorted(table, col) ==
  IF table = <<>> THEN <<>>
  ELSE InsertRow(sorted(SubSeq(table, 1, Len(table) - 1), col), table[Len(table)], col)

\* the name and email properties: read from the first entry of histories
AuthorName(author) == author.histories[1].v.name
AuthorEmail(author) == author.histories[1].v.email

AuthorRow(author) ==
  <<AuthorName(author), AuthorEmail(author), author.first_commit_at,
    author.last_commit_at, author.commit_count,
    Join([k \in 1 .. Len(author.histories) |-> author.histories[k].v.repo])>>

AuthorHeaders == <<"Email", "Name", "First commit", "Last commit", "Commit count", "Repos">>

\* the table of output_author_data, sorted by row[2]
AuthorTable(all) == sorted([k \in 1 .. Len(all) |-> AuthorRow(all[k].v)], 3)

OutputAuthorData ==
  /\ pc = "output_authors"
  /\ stdout' = Append(stdout, [title |-> "All authors", headers |-> AuthorHeaders,
                               rows |-> AuthorTable(all_author_histories)])
  /\ authors_csv' = <<AuthorHeaders>> \o AuthorTable(all_author_histories)
  /\ pc' = "output_repos"
  /\ UNCHANGED <<argv, tz, i, commits, j, history, repos, r,
                 all_author_histories, repos_csv>>

RepoRow(repo) == <<repo.name, repo.first_commit_at, repo.last_commit_at, repo.commit_count>>

RepoHeaders == <<"Repository", "First commit", "Last commit", "Commit count">>

\* the table of output_repository_data, sorted by row[2]
RepoTable(hs) == sorted([k \in 1 .. Len(hs) |-> RepoRow(hs[k])], 3)

OutputRepositoryData ==
  /\ pc = "output_repos"
  /\ stdout' = Append(stdout, [title |-> "All repositories", headers |-> RepoHeaders,
                               rows |-> RepoTable(repos)])
  /\ repos_csv' = <<RepoHeaders>> \o RepoTable(repos)
  /\ pc' = "done"
  /\ UNCHANGED <<argv, tz, i, commits, j, history, repos, r,
                 all_author_histories, authors_csv>>

Next ==
  \/ ExtractInvalid
  \/ ExtractNoHeads
  \/ ExtractNoMaster
  \/ ExtractStart
  \/ WalkCommit
  \/ ExtractFinish
  \/ MineAuthorsStart
  \/ AggregateRepo
  \/ MineDataReturn
  \/ OutputAuthorData
  \/ OutputRepositoryData

Spec == Init /\ [][Next]_vars

\* ---- properties ----

\* the commits the walk has gone through, and those of one email among them
Walked == SubSeq(commits, 1, j - 1)
WalkedOf(email) == SelectSeq(Walked, LAMBDA c : c.email = email)
AuthorCounts(h) == [k \in 1 .. Len(h.authors) |-> h.authors[k].v.commit_count]
Aggregated == pc \in {"output_authors", "output_repos", "done"}
\* the repositories, by index, that have commits of an email
ReposOf(email) == { k \in 1 .. Len(repos) : DictHas(repos[k].authors, email) }
Perms(n) == { p \in [1 .. n -> 1 .. n] : \A a, b \in 1 .. n : p[a] = p[b] => a = b }
Permute(s, p) == [k \in 1 .. Len(s) |-> s[p[k]]]
KeySet(d) == Range(DictKeys(d))

\* C1: after every iteration of the commit walk, and in the history that is
\* returned, commit_count is the number of commits walked, the authors mapping
\* has one entry per distinct email walked, and the per-author counts add up
\* to the repository's commit_count.
C1_CountsAddUp ==
  /\ history.commit_count = Len(Walked)
  /\ Len(history.authors) = Cardinality({ Walked[k].email : k \in 1 .. Len(Walked) })
  /\ KeySet(history.authors) = { Walked[k].email : k \in 1 .. Len(Walked) }
  /\ SumSeq(AuthorCounts(history)) = history.commit_count
  /\ (pc # "walk" /\ repos # <<>>) => repos[Len(repos)] = history
  /\ \A k \in 1 .. Len(repos) : SumSeq(AuthorCounts(repos[k])) = repos[k].commit_count

\* a returned history of two commits by one email
C1_Witness ==
  /\ pc = "mine" /\ repos # <<>>
  /\ repos[Len(repos)].commit_count = 2
  /\ Len(repos[Len(repos)].authors) = 1

\* C2: every author's first_commit_at is the minimum and last_commit_at the
\* maximum commit time among the commits of that email in the walked sequence.
C2_FirstLastAreMinMax ==
  \A k \in 1 .. Len(history.authors) :
    LET a == history.authors[k].v
        ts == { fromtimestamp(c.committed_date) : c \in Range(WalkedOf(a.email)) }
    IN /\ a.first_commit_at = SetMin(ts)
       /\ a.last_commit_at = SetMax(ts)

\* C3: after mine_authors_over_repos every cross-repository record has
\* commit_count equal to the sum of the commit_count of the records in its
\* histories, and histories has one entry per processed repository in which
\* the email has commits.
C3_CountIsSumOfHistories ==
  Aggregated =>
    \A k \in 1 .. Len(all_author_histories) :
      LET a == all_author_histories[k].v
      IN /\ a.commit_count =
              SumSeq([m \in 1 .. Len(a.histories) |-> a.histories[m].v.commit_count])
         /\ Len(a.histories) = Cardinality(ReposOf(all_author_histories[k].k))

\* C4: after mine_authors_over_repos every cross-repository record has
\* first_commit_at equal to the minimum of the author's per-repository
\* first_commit_at and last_commit_at equal to the maximum of the author's
\* per-repository last_commit_at.
C4_FoldIsMinMax ==
  Aggregated =>
    \A k \in 1 .. Len(all_author_histories) :
      LET e == all_author_histories[k].k
          a == all_author_histories[k].v
      IN /\ a.first_commit_at =
              SetMin({ DictGet(repos[m].authors, e).first_commit_at : m \in ReposOf(e) })
         /\ a.last_commit_at =
              SetMax({ DictGet(repos[m].authors, e).last_commit_at : m \in ReposOf(e) })

\* C5 as stated: for every permutation of the repository histories
\* mine_authors_over_repos yields for every email the same first_commit_at,
\* last_commit_at, commit_count, the same histories entries and the same
\* derived name and email.
C5_OrderImmaterial ==
  Aggregated =>
    \A p \in Perms(Len(repos)) :
      LET other == mine_authors_over_repos(Permute(repos, p))
      IN /\ KeySet(other) = KeySet(all_author_histories)
         /\ \A e \in KeySet(other) :
              LET a == DictGet(all_author_histories, e)
                  b == DictGet(other, e)
              IN /\ a.first_commit_at = b.first_commit_at
                 /\ a.last_commit_at = b.last_commit_at
                 /\ a.commit_count = b.commit_count
                 /\ Range(a.histories) = Range(b.histories)
                 /\ AuthorName(a) = AuthorName(b)
                 /\ AuthorEmail(a) = AuthorEmail(b)

\* C5 as amended: for every permutation of the repository histories
\* mine_authors_over_repos yields the same set of emails and for every email
\* the same first_commit_at, last_commit_at, commit_count, the same set of
\* repository names in histories and the same derived email.
C5_OrderImmaterialAggregates ==
  Aggregated =>
    \A p \in Perms(Len(repos)) :
      LET other == mine_authors_over_repos(Permute(repos, p))
      IN /\ KeySet(other) = KeySet(all_author_histories)
         /\ \A e \in KeySet(other) :
              LET a == DictGet(all_author_histories, e)
                  b == DictGet(other, e)
              IN /\ a.first_commit_at = b.first_commit_at
                 /\ a.last_commit_at = b.last_commit_at
                 /\ a.commit_count = b.commit_count
                 /\ KeySet(a.histories) = KeySet(b.histories)
                 /\ AuthorEmail(a) = AuthorEmail(b)

\* two repositories with commits of one email at different times
C5_Witness ==
  /\ pc = "done" /\ Len(repos) = 2
  /\ \E e \in Emails :
       /\ ReposOf(e) = {1, 2}
       /\ DictGet(repos[1].authors, e).first_commit_at >
            DictGet(repos[2].authors, e).first_commit_at
       /\ DictGet(repos[1].authors, e).last_commit_at >
            DictGet(repos[2].authors, e).last_commit_at

\* C6: a path whose repository has no branch heads adds no history to
\* FullHistory.repos, no row to the repository report and no author; the run
\* goes on, and repos holds the histories of the usable paths in input order.
C6_NoHeadsSkipped ==
  LET done == SubSeq(argv, 1, i - 1)
      usable == SelectSeq(done, LAMBDA a : a.kind = "ok")
  IN /\ [k \in 1 .. Len(repos) |-> repos[k].name] =
          [k \in 1 .. Len(usable) |-> usable[k].name]
     /\ pc = "aborted" => argv[i].kind \in {"invalid", "nomaster"}
     /\ repos_csv # <<>> => Len(repos_csv) = 1 + Len(usable)
     /\ \A k \in 1 .. Len(all_author_histories) :
          ReposOf(all_author_histories[k].k) # {}

\* the run is over, the first path had no heads and the second was extracted
C6_Witness ==
  /\ pc = "done" /\ Len(argv) = 2
  /\ argv[1].kind = "noheads" /\ argv[2].kind = "ok"
  /\ Len(repos) = 1 /\ Len(repos_csv) = 2

\* the column of the authors' header row that carries a label
AuthorCol(label) == CHOOSE c \in 1 .. Len(AuthorHeaders) : authors_csv[1][c] = label

\* C7: in every data row of authors.csv the value at each position is the
\* field that the header row names at that position.
C7_ColumnsMatchHeaders ==
  authors_csv # <<>> =>
    \A n \in 2 .. Len(authors_csv) :
      \E k \in 1 .. Len(all_author_histories) :
        LET a == all_author_histories[k].v
            row == authors_csv[n]
        IN /\ row[AuthorCol("Email")] = AuthorEmail(a)
           /\ row[AuthorCol("Name")] = AuthorName(a)
           /\ row[AuthorCol("First commit")] = a.first_commit_at
           /\ row[AuthorCol("Last commit")] = a.last_commit_at
           /\ row[AuthorCol("Commit count")] = a.commit_count

\* C8: a path with branch heads but without the designated branch aborts the
\* run: no later path is processed, nothing is aggregated, no report is
\* printed and no file is written.
C8_MissingBranchAborts ==
  \A k \in 1 .. Len(argv) :
    argv[k].kind = "nomaster" =>
      /\ i <= k
      /\ pc \in {"mine", "walk", "aborted"}
      /\ (pc = "aborted" => Len(repos) <= i - 1)
      /\ all_author_histories = <<>>
      /\ stdout = <<>> /\ authors_csv = <<>> /\ repos_csv = <<>>

\* the run was aborted at the second path after the first was extracted
C8_Witness ==
  /\ pc = "aborted" /\ i = 2
  /\ argv[2].kind = "nomaster"
  /\ Len(repos) = 1

\* rows is base reordered by a permutation that is ascending in key and keeps
\* the order of base among equal keys
StableSorted(rows, base, key) ==
  /\ Len(rows) = Len(base)
  /\ \E p \in Perms(Len(base)) :
       /\ \A k \in 1 .. Len(base) : rows[k] = base[p[k]]
       /\ \A a, b \in 1 .. Len(base) :
            a < b => \/ key[p[a]] < key[p[b]]
                     \/ (key[p[a]] = key[p[b]] /\ p[a] < p[b])

\* C9: the author report has one row per email of all_author_histories in
\* ascending order of first_commit_at, the repository report one row per entry
\* of repos in ascending order of last_commit_at, and rows with equal keys keep
\* the order of the mapping or list.
C9_ReportsSorted ==
  /\ authors_csv # <<>> =>
       /\ StableSorted(Tail(authors_csv),
            [k \in 1 .. Len(all_author_histories) |-> AuthorRow(all_author_histories[k].v)],
            [k \in 1 .. Len(all_author_histories) |->
               all_author_histories[k].v.first_commit_at])
       /\ stdout[1].rows = Tail(authors_csv)
       /\ Cardinality(KeySet(all_author_histories)) = Len(Tail(authors_csv))
  /\ repos_csv # <<>> =>
       /\ StableSorted(Tail(repos_csv),
            [k \in 1 .. Len(repos) |-> RepoRow(repos[k])],
            [k \in 1 .. Len(repos) |-> repos[k].last_commit_at])
       /\ stdout[2].rows = Tail(repos_csv)

\* both reports are written and both had to be reordered
C9_Witness ==
  /\ pc = "done"
  /\ Len(all_author_histories) = 2 /\ Len(repos) = 2
  /\ all_author_histories[1].v.first_commit_at > all_author_histories[2].v.first_commit_at
  /\ repos[1].last_commit_at > repos[2].last_commit_at

\* C10: every author's first_commit_message is the message of the author's
\* first commit in the walk and last_commit_message the message of the author's
\* last commit in the walk, also for an author with one commit.
C10_MessagesOfFirstAndLast ==
  \A k \in 1 .. Len(history.authors) :
    LET a == history.authors[k].v
        cs == WalkedOf(a.email)
    IN /\ a.first_commit_message = cs[1].message
       /\ a.last_commit_message = cs[Len(cs)].message

====
